---- MODULE Spec2Model ----
(***************************************************************************)
(* node-exeunt: exiting a node.js process and flushing stdout and stderr.  *)
(*                                                                         *)
(* The module exports one function, exeuntSetBlockingAndExitImmediate      *)
(* (lib/exeunt.js): it sets stdout and stderr blocking and calls           *)
(* process.exit from a setImmediate callback.  The model is that function  *)
(* called by a script like the ones under examples/, inside the node event *)
(* loop the README describes: the script's first turn, then per iteration  *)
(* the timers (uv__run_timers), one bounded I/O poll pass (uv__io_poll)    *)
(* and the setImmediate handlers.  The scripts that do without exeunt      *)
(* (process.exit in main(), process.exitCode, softExit and hardballExit)   *)
(* run in the same loop.                                                   *)
(***************************************************************************)
EXTENDS Integers, Sequences, FiniteSets, TLC

\* ------------------------------------------------------------------ bounds
MaxWrites == 3   \* stream writes made by the program
MaxCalls  == 2   \* calls of exeunt made by the program
IoPollMax == 2   \* I/O events one poll pass services (README: 48)
PipeCap   == 3   \* capacity of a pipe, in units (README: 64k)
MaxIo     == IoPollMax   \* other I/O requests (sockets) the program has in flight

Streams  == {"stdout", "stderr"}
\* var size = Number(process.argv[2]) || 65 * 1024: the payload either fits
\* in the pipe together with the two lines around it, or is larger than the pipe.
Sizes    == {PipeCap - 2, PipeCap + 1}
Codes    == {42}
\* The argument list of a call: exeunt() or exeunt(code).
ArgLists == {<<>>} \cup {<<c>> : c \in Codes}

\* What process.stdout / process.stderr can be: the three things setBlocking
\* probes (the stream, its _handle, the handle's setBlocking), and whether the
\* stream starts out blocking. Output stopped being blocking in the runtimes
\* that have the toggle (README, "somewhere in the node.js 0.10 or 0.12 version
\* range"): a handle without it is blocking.
Absent == [exists |-> FALSE, handle |-> FALSE, toggle |-> FALSE, blocking |-> FALSE]
File   == [exists |-> TRUE,  handle |-> FALSE, toggle |-> FALSE, blocking |-> TRUE]
Legacy == [exists |-> TRUE,  handle |-> TRUE,  toggle |-> FALSE, blocking |-> TRUE]
Pipe   == [exists |-> TRUE,  handle |-> TRUE,  toggle |-> TRUE,  blocking |-> FALSE]
StreamKinds == {Absent, File, Legacy, Pipe}

VARIABLES
  phase,          \* "main", "alive", "timers", "poll", "check", "exited"
  caps,           \* stream -> what exists of it (exists, handle, toggle)
  blocking,       \* stream -> is its handle in blocking mode
  queue,          \* stream -> write requests not yet written to the fd: <<[id, rem]>>
  pipeFree,       \* stream -> free units in the pipe
  delivered,      \* ids of the writes wholly written to their fd
  size,           \* the size of the payload the script writes
  writes,         \* history: the writes made, in order
  calls,          \* history: the calls of exeunt, in order
  immediateQueue, \* setImmediate callbacks queued for the next check phase
  running,        \* the callbacks the current check phase is running
  interval,       \* the script has a setInterval timer registered
  fired,          \* the interval ran in the current timers phase
  userImmediate,  \* the script's own setImmediate callback: "no", "queued", "ran"
  ioPending,      \* other I/O requests in flight
  batch,          \* the events the current poll pass services
  toggles,        \* history: stream -> calls of its handle's setBlocking(true) by exeunt
  thrown,         \* history: exeunt raised an exception
  since,          \* history: what ran since the first call of exeunt (timers, polls, io)
  exitStatus,     \* the status the process ended with
  exitVia,        \* "none", "processExit", "natural", "exit", "exception"
  program,        \* the script that runs: "exeunt", "exit", "soft"
  hasExitCode,    \* the runtime has process.exitCode (node >= 0.12)
  exitCode,       \* process.exitCode
  soft,           \* history: the calls of softExit and hardballExit: <<[fn, args]>>
  manual          \* history: calls of the script's own setBlocking()

vars == <<phase, caps, blocking, queue, pipeFree, delivered, size, writes, calls,
          immediateQueue, running, interval, fired, userImmediate, ioPending,
          batch, toggles, thrown, since, exitStatus, exitVia,
          program, hasExitCode, exitCode, soft, manual>>

\* The runtime's exit code and what the scripts other than the exeunt ones did.
procVars == <<program, hasExitCode, exitCode, soft, manual>>

NoBatch == [streams |-> {}, other |-> 0, overflow |-> FALSE]

\* The scripts of examples/: the ones that end with exeunt(code), the ones
\* that call process.exit(code) themselves (write-65k-and-exit,
\* write-65k-setblocking-write-and-exit), and the ones that avoid process.exit
\* (hang-because-active-handle, hardball-after-2s).
Programs == {"exeunt", "exit", "soft"}

\* The scripts: any streams under a script that only writes and exits, and a
\* script with an interval and sockets, as in examples/, on two pipes
\* (node script.js 2>&1 | grep meta).
Init ==
  /\ phase = "main"
  /\ program \in Programs
  /\ hasExitCode \in BOOLEAN
  /\ \E k \in [Streams -> StreamKinds] :
        /\ caps = [s \in Streams |-> [exists |-> k[s].exists, handle |-> k[s].handle,
                                      toggle |-> k[s].toggle]]
        /\ blocking = [s \in Streams |-> k[s].blocking]
  /\ size \in Sizes
  /\ interval \in BOOLEAN
  /\ ioPending \in 0..MaxIo
  /\ \/ \A s \in Streams : caps[s] = [exists |-> TRUE, handle |-> TRUE, toggle |-> TRUE]
     \/ ~interval /\ ioPending = 0
  /\ program = "exeunt" => hasExitCode
  /\ program = "exit" => (hasExitCode /\ ~interval /\ ioPending = 0)
  /\ program = "soft" =>
       (ioPending = 0 /\ \A s \in Streams : caps[s] = [exists |-> TRUE, handle |-> TRUE, toggle |-> TRUE])
  /\ queue = [s \in Streams |-> <<>>]
  /\ pipeFree = [s \in Streams |-> PipeCap]
  /\ delivered = {}
  /\ writes = <<>>
  /\ calls = <<>>
  /\ immediateQueue = <<>>
  /\ running = <<>>
  /\ fired = FALSE
  /\ userImmediate = "no"
  /\ batch = NoBatch
  /\ toggles = [s \in Streams |-> 0]
  /\ thrown = FALSE
  /\ since = [timers |-> 0, polls |-> 0, io |-> 0]
  /\ exitStatus = 0
  /\ exitVia = "none"
  /\ exitCode = 0
  /\ soft = <<>>
  /\ manual = 0

\* ------------------------------------------------------- the output streams
\* Mutant: the pipe takes one unit less than it has free.
RECURSIVE Drain_ShortPipe(_, _, _)
Drain_ShortPipe(q, free, done) ==
  LET avail == IF free > 0 THEN free - 1 ELSE 0 IN
  IF q = <<>> THEN [q |-> q, free |-> free, done |-> done]
  ELSE IF Head(q).rem <= avail
       THEN Drain_ShortPipe(Tail(q), free - Head(q).rem, done \cup {Head(q).id})
       ELSE [q |-> <<[id |-> Head(q).id, rem |-> Head(q).rem - avail]>> \o Tail(q),
             free |-> free - avail, done |-> done]

\* A non-blocking fd takes what fits in the pipe: the requests of q, in order,
\* against free units; the result is what stays queued, what is free, what is done.
RECURSIVE Drain(_, _, _)
Drain(q, free, done) ==
  IF q = <<>> THEN [q |-> q, free |-> free, done |-> done]
  ELSE IF Head(q).rem <= free
       THEN Drain(Tail(q), free - Head(q).rem, done \cup {Head(q).id})
       ELSE [q |-> <<[id |-> Head(q).id, rem |-> Head(q).rem - free]>> \o Tail(q),
             free |-> 0, done |-> done]

\* A blocking fd takes every request: the write waits for the reader. (How
\* full the pipe is afterwards is the reader's doing and nothing reads it: the
\* level is tracked for non-blocking fds only.)
DrainBlocking(q, free) ==
  [q |-> <<>>, free |-> free, done |-> {q[i].id : i \in 1..Len(q)}]

\* The fd of stream s becomes writable in a poll pass: its queue is written.
Flush(s) ==
  IF blocking[s] THEN DrainBlocking(queue[s], pipeFree[s])
  ELSE Drain(queue[s], pipeFree[s], {})

\* process.stdout.write(chunk): a stream without a handle writes synchronously;
\* a handle with requests queued queues the new one behind them, also when it
\* is blocking; otherwise the chunk is written to the fd at once, as far as the
\* fd takes it.
StreamWrite(s, id, n) ==
  LET req == <<[id |-> id, rem |-> n]>> IN
  IF ~caps[s].handle THEN [q |-> <<>>, free |-> pipeFree[s], done |-> {id}]
  ELSE IF queue[s] # <<>> THEN [q |-> queue[s] \o req, free |-> pipeFree[s], done |-> {}]
  ELSE IF blocking[s] THEN DrainBlocking(req, pipeFree[s])
  ELSE Drain(req, pipeFree[s], {})

\* The write of n units to stream s, as the change of the streams' state.
DoWrite(s, n) ==
  LET id == Len(writes) + 1
      r  == StreamWrite(s, id, n) IN
    /\ queue' = [queue EXCEPT ![s] = r.q]
    /\ pipeFree' = [pipeFree EXCEPT ![s] = r.free]
    /\ delivered' = delivered \cup r.done
    /\ writes' = Append(writes, [s |-> s, size |-> n, ncalls |-> Len(calls),
                                 blocking |-> blocking[s]])

\* --------------------------------------------------------------- lib/exeunt.js
\* Mutant: s && s._handle.setBlocking && ..., the check of _handle left out.
setStreamBlocking_NoHandleCheck(c) ==
  IF ~c.exists THEN "skip"
  ELSE IF ~c.handle THEN "throw"
  ELSE IF ~c.toggle THEN "skip"
  ELSE "invoke"

\* s && s._handle && s._handle.setBlocking && s._handle.setBlocking(true)
setStreamBlocking(c) ==
  IF ~c.exists THEN "skip"
  ELSE IF ~c.handle THEN "skip"
  ELSE IF ~c.toggle THEN "skip"
  ELSE "invoke"

\* Mutant: s._handle.setBlocking(!blocking), a toggle instead of a set.
setBlocking_Flip ==
  LET out == [s \in Streams |-> setStreamBlocking(caps[s])]
  IN [blocking |-> [s \in Streams |-> IF out[s] = "invoke" THEN ~blocking[s] ELSE blocking[s]],
      invoked  |-> {s \in Streams : out[s] = "invoke"},
      threw    |-> FALSE]

\* Mutant: setBlocking(true) on a handle that is blocking already is an error.
setBlocking_ThrowsOnRepeat ==
  LET out == [s \in Streams |->
                IF setStreamBlocking(caps[s]) = "invoke" /\ blocking[s] THEN "throw"
                ELSE setStreamBlocking(caps[s])]
  IN [blocking |-> [s \in Streams |-> IF out[s] = "invoke" THEN TRUE ELSE blocking[s]],
      invoked  |-> {s \in Streams : out[s] = "invoke"},
      threw    |-> \E s \in Streams : out[s] = "throw"]

\* [process.stdout, process.stderr].forEach(...): the streams in order; a
\* stream whose probe throws ends the loop.
setBlocking ==
  LET o1 == setStreamBlocking(caps["stdout"])
      o2 == IF o1 = "throw" THEN "none" ELSE setStreamBlocking(caps["stderr"])
      out == [s \in Streams |-> IF s = "stdout" THEN o1 ELSE o2]
  IN [blocking |-> [s \in Streams |-> IF out[s] = "invoke" THEN TRUE ELSE blocking[s]],
      invoked  |-> {s \in Streams : out[s] = "invoke"},
      threw    |-> \E s \in Streams : out[s] = "throw"]

\* Mutant: the default is 1.
exitCodeOf_DefaultOne(args) == IF args = <<>> THEN 1 ELSE args[1]

\* if (code === undefined) { code = 0; }
exitCodeOf(args) == IF args = <<>> THEN 0 ELSE args[1]

\* Mutant: the callback does not call process.exit.
processExitCallback_NoExit(code) ==
  [fn |-> "user", code |-> code, call |-> Len(calls) + 1, polled |-> FALSE]

\* function processExit() { process.exit(code); }, as setImmediate queues it.
processExitCallback(code) ==
  [fn |-> "processExit", code |-> code, call |-> Len(calls) + 1, polled |-> FALSE]

\* Mutant: setBlocking() is not called.
exeunt_NoSetBlocking(args, ctx) ==
  /\ Len(calls) < MaxCalls
  /\ UNCHANGED <<blocking, toggles, thrown>>
  /\ immediateQueue' = Append(immediateQueue, processExitCallback(exitCodeOf(args)))
  /\ calls' = Append(calls, [args |-> args, ctx |-> ctx])

\* Mutant: setImmediate is not called.
exeunt_NoSetImmediate(args, ctx) ==
  /\ Len(calls) < MaxCalls
  /\ blocking' = setBlocking.blocking
  /\ toggles' = [s \in Streams |-> IF s \in setBlocking.invoked THEN toggles[s] + 1 ELSE toggles[s]]
  /\ UNCHANGED <<thrown, immediateQueue>>
  /\ calls' = Append(calls, [args |-> args, ctx |-> ctx])

\* Mutant: one shared immediate, which a later call clears and sets again.
exeunt_Rearm(args, ctx) ==
  /\ Len(calls) < MaxCalls
  /\ blocking' = setBlocking.blocking
  /\ toggles' = [s \in Streams |-> IF s \in setBlocking.invoked THEN toggles[s] + 1 ELSE toggles[s]]
  /\ UNCHANGED thrown
  /\ immediateQueue' = Append(SelectSeq(immediateQueue, LAMBDA e : e.fn # "processExit"),
                              processExitCallback(exitCodeOf(args)))
  /\ calls' = Append(calls, [args |-> args, ctx |-> ctx])

\* Mutant: the exit callback goes to the front of the queue (as with
\* process.nextTick in place of setImmediate).
exeunt_JumpQueue(args, ctx) ==
  /\ Len(calls) < MaxCalls
  /\ blocking' = setBlocking.blocking
  /\ toggles' = [s \in Streams |-> IF s \in setBlocking.invoked THEN toggles[s] + 1 ELSE toggles[s]]
  /\ UNCHANGED thrown
  /\ immediateQueue' = <<processExitCallback(exitCodeOf(args))>> \o immediateQueue
  /\ calls' = Append(calls, [args |-> args, ctx |-> ctx])

\* exeunt(args), called in the turn ctx.
exeuntSetBlockingAndExitImmediate(args, ctx) ==
  /\ Len(calls) < MaxCalls
  /\ LET r == setBlocking IN
       /\ blocking' = r.blocking
       /\ toggles' = [s \in Streams |-> IF s \in r.invoked THEN toggles[s] + 1 ELSE toggles[s]]
       /\ thrown' = (thrown \/ r.threw)
       /\ immediateQueue' = IF r.threw THEN immediateQueue
                            ELSE Append(immediateQueue, processExitCallback(exitCodeOf(args)))
  /\ calls' = Append(calls, [args |-> args, ctx |-> ctx])

\* ------------------------------------------------- the script's first turn
\* What the script writes to stdout, in order: the start line, the payload,
\* the done line (and lines of one unit after those).
ChunkSize(n) == IF n = 2 THEN size ELSE 1

WritesTo(s) == {i \in 1..Len(writes) : writes[i].s = s}

\* process.stdout.write(...): the next chunk of the script.
Write ==
  /\ phase = "main"
  /\ Len(writes) < MaxWrites
  /\ caps["stdout"].exists
  /\ DoWrite("stdout", ChunkSize(Cardinality(WritesTo("stdout")) + 1))
  /\ UNCHANGED <<phase, caps, blocking, size, calls, immediateQueue, running, interval,
                 fired, userImmediate, ioPending, batch, toggles, thrown, since, exitStatus, exitVia, procVars>>

\* Mutant: exeunt also sets process.exitCode = code.
Exeunt_SetsExitCode(args) ==
  /\ phase = "main"
  /\ program = "exeunt"
  /\ exeuntSetBlockingAndExitImmediate(args, "main")
  /\ exitCode' = exitCodeOf(args)
  /\ UNCHANGED <<phase, caps, queue, pipeFree, delivered, size, writes, running, interval,
                 fired, userImmediate, ioPending, batch, since, exitStatus, exitVia,
                 program, hasExitCode, soft, manual>>

\* exeunt(code); in main().
Exeunt(args) ==
  /\ phase = "main"
  /\ program = "exeunt"
  /\ exeuntSetBlockingAndExitImmediate(args, "main")
  /\ UNCHANGED <<phase, caps, queue, pipeFree, delivered, size, writes, running, interval,
                 fired, userImmediate, ioPending, batch, since, exitStatus, exitVia, procVars>>

\* setImmediate(callback) by the script itself.
SetImmediate ==
  /\ phase = "main"
  /\ userImmediate = "no"
  /\ userImmediate' = "queued"
  /\ immediateQueue' = Append(immediateQueue,
        [fn |-> "user", code |-> 0, call |-> Len(calls), polled |-> FALSE])
  /\ UNCHANGED <<phase, caps, blocking, queue, pipeFree, delivered, size, writes, calls,
                 running, interval, fired, ioPending, batch, toggles, thrown,
                 since, exitStatus, exitVia, procVars>>

\* ------------------------------------------ the scripts without exeunt
\* process.exit(42) in main() (write-65k-and-exit.js): the process is gone in
\* the turn of the call, with whatever its streams still had queued.
MainProcessExit ==
  /\ phase = "main"
  /\ program = "exit"
  /\ phase' = "exited"
  /\ exitVia' = "exit"
  /\ exitStatus' = 42
  /\ UNCHANGED <<caps, blocking, queue, pipeFree, delivered, size, writes, calls,
                 immediateQueue, running, interval, fired, userImmediate, ioPending,
                 batch, toggles, thrown, since, procVars>>

\* Mutant: setting a stream blocking writes out what it has queued.
MainSetBlocking_Flushes ==
  /\ phase = "main"
  /\ program = "exit"
  /\ manual < MaxCalls
  /\ manual' = manual + 1
  /\ blocking' = setBlocking.blocking
  /\ thrown' = (thrown \/ setBlocking.threw)
  /\ queue' = [s \in Streams |-> IF s \in setBlocking.invoked THEN <<>> ELSE queue[s]]
  /\ delivered' = delivered \cup
        UNION {{queue[s][i].id : i \in 1..Len(queue[s])} : s \in setBlocking.invoked}
  /\ UNCHANGED <<phase, caps, pipeFree, size, writes, calls,
                 immediateQueue, running, interval, fired, userImmediate, ioPending,
                 batch, toggles, since, exitStatus, exitVia,
                 program, hasExitCode, exitCode, soft>>

\* setBlocking(); in main() (write-65k-setblocking-write-and-exit.js, the
\* script's own copy of the function).
MainSetBlocking ==
  /\ phase = "main"
  /\ program = "exit"
  /\ manual < MaxCalls
  /\ manual' = manual + 1
  /\ blocking' = setBlocking.blocking
  /\ thrown' = (thrown \/ setBlocking.threw)
  /\ UNCHANGED <<phase, caps, queue, pipeFree, delivered, size, writes, calls,
                 immediateQueue, running, interval, fired, userImmediate, ioPending,
                 batch, toggles, since, exitStatus, exitVia,
                 program, hasExitCode, exitCode, soft>>

\* process.exitCode = 42; (hang-because-active-handle.js). A runtime without
\* process.exitCode (node 0.10) takes the assignment and does not look at it.
SetExitCode ==
  /\ phase = "main"
  /\ program = "soft"
  /\ soft = <<>> /\ exitCode = 0
  /\ exitCode' = 42
  /\ UNCHANGED <<phase, caps, blocking, queue, pipeFree, delivered, size, writes, calls,
                 immediateQueue, running, interval, fired, userImmediate, ioPending,
                 batch, toggles, thrown, since, exitStatus, exitVia,
                 program, hasExitCode, soft, manual>>

\* The status node ends with on an uncaught exception: 1, and 8 in node 0.10.
UncaughtExitStatus == IF hasExitCode THEN 1 ELSE 8

\* exeunt.softExit(code): the module is the function
\* exeuntSetBlockingAndExitImmediate and has no softExit property, so the call
\* is a call of undefined and throws a TypeError. Nothing in the scripts
\* catches it: the process ends on the uncaught exception.
softExit(fn, args) ==
  /\ soft' = Append(soft, [fn |-> fn, args |-> args])
  /\ phase' = "exited"
  /\ exitVia' = "exception"
  /\ exitStatus' = UncaughtExitStatus
  /\ UNCHANGED exitCode

\* exeunt.softExit(code); in main().
SoftExit(args) ==
  /\ phase = "main"
  /\ program = "soft"
  /\ soft = <<>> /\ exitCode = 0
  /\ softExit("softExit", args)
  /\ UNCHANGED <<caps, blocking, queue, pipeFree, delivered, size, writes, calls,
                 immediateQueue, running, interval, fired, userImmediate, ioPending,
                 batch, toggles, thrown, since, program, hasExitCode, manual>>

\* hardballExit(code); in main() (hardball-after-2s.js): its first statement is
\* exeunt.softExit(code), and the setTimeout after it is not reached.
HardballExit(args) ==
  /\ phase = "main"
  /\ program = "soft"
  /\ soft = <<>> /\ exitCode = 0
  /\ softExit("hardballExit", args)
  /\ UNCHANGED <<caps, blocking, queue, pipeFree, delivered, size, writes, calls,
                 immediateQueue, running, interval, fired, userImmediate, ioPending,
                 batch, toggles, thrown, since, program, hasExitCode, manual>>

\* return; from main(): the turn ends and control is back in the event loop.
Return ==
  /\ phase = "main"
  /\ phase' = "alive"
  /\ UNCHANGED <<caps, blocking, queue, pipeFree, delivered, size, writes, calls,
                 immediateQueue, running, interval, fired, userImmediate, ioPending,
                 batch, toggles, thrown, since, exitStatus, exitVia, procVars>>

\* ------------------------------------------------------------ the event loop
\* History: a callback of kind k ran; counted once exeunt has been called.
Ran(k) == IF calls = <<>> THEN since ELSE [since EXCEPT ![k] = @ + 1]

\* Mutant: an active timer does not keep the loop running.
LoopAlive_IgnoresTimers ==
  \/ immediateQueue # <<>>
  \/ ioPending > 0
  \/ \E s \in Streams : queue[s] # <<>>

\* uv__loop_alive: something still keeps the loop running.
LoopAlive ==
  \/ interval
  \/ immediateQueue # <<>>
  \/ ioPending > 0
  \/ \E s \in Streams : queue[s] # <<>>

\* The loop is alive: one more iteration starts with the timers.
StartIteration ==
  /\ phase = "alive"
  /\ LoopAlive
  /\ phase' = "timers"
  /\ fired' = FALSE
  /\ UNCHANGED <<caps, blocking, queue, pipeFree, delivered, size, writes, calls,
                 immediateQueue, running, interval, userImmediate, ioPending, batch,
                 toggles, thrown, since, exitStatus, exitVia, procVars>>

\* Nothing keeps the loop alive: the process ends by itself, everything written.
NaturalExit ==
  /\ phase = "alive"
  /\ ~LoopAlive
  /\ phase' = "exited"
  /\ exitVia' = "natural"
  /\ exitStatus' = (IF hasExitCode THEN exitCode ELSE 0)
  /\ UNCHANGED <<caps, blocking, queue, pipeFree, delivered, size, writes, calls,
                 immediateQueue, running, interval, fired, userImmediate, ioPending,
                 batch, toggles, thrown, since, procVars>>

\* uv__run_timers: the interval, when due, runs, once per pass:
\* process.stderr.write('[meta] this interval is still running\n').
TimerFire ==
  /\ phase = "timers"
  /\ interval /\ ~fired
  /\ Len(writes) < MaxWrites
  /\ fired' = TRUE
  /\ DoWrite("stderr", 1)
  /\ since' = Ran("timers")
  /\ UNCHANGED <<phase, caps, blocking, size, calls, immediateQueue, running, interval,
                 userImmediate, ioPending, batch, toggles, thrown, exitStatus, exitVia, procVars>>

\* uv__run_timers: the interval's callback finds its work done and calls
\* clearInterval(interval): the handle is closed.
TimerClear ==
  /\ phase = "timers"
  /\ program = "soft"
  /\ interval /\ ~fired
  /\ fired' = TRUE
  /\ interval' = FALSE
  /\ UNCHANGED <<phase, caps, blocking, queue, pipeFree, delivered, size, writes, calls,
                 immediateQueue, running, userImmediate, ioPending, batch, toggles,
                 thrown, since, exitStatus, exitVia, procVars>>

\* Mutant: a pass services every pending event.
PollBatches_Unbounded(ready) ==
  {[streams |-> {s \in Streams : queue[s] # <<>>}, other |-> ready, overflow |-> FALSE]}

\* The events a poll pass can take: the streams with queued writes and ready
\* of the other requests. At most IoPollMax of them are serviced in the pass.
PollBatches(ready) ==
  LET ss == {s \in Streams : queue[s] # <<>>} IN
  IF Cardinality(ss) + ready <= IoPollMax
  THEN {[streams |-> ss, other |-> ready, overflow |-> FALSE]}
  ELSE {[streams |-> x[1], other |-> x[2], overflow |-> TRUE] :
          x \in {y \in (SUBSET ss) \X (0..ready) : Cardinality(y[1]) + y[2] = IoPollMax}}

MarkPolled(q) == [i \in 1..Len(q) |-> [q[i] EXCEPT !.polled = TRUE]]

\* The timers are done: uv__io_poll starts a pass over the events now pending.
StartPoll ==
  /\ phase = "timers"
  /\ phase' = "poll"
  /\ \E ready \in 0..ioPending : batch' \in PollBatches(ready)
  /\ immediateQueue' = MarkPolled(immediateQueue)
  /\ since' = Ran("polls")
  /\ UNCHANGED <<caps, blocking, queue, pipeFree, delivered, size, writes, calls,
                 running, interval, fired, userImmediate, ioPending, toggles, thrown,
                 exitStatus, exitVia, procVars>>

\* The pass services a stream's fd: queued writes go out.
ServiceStream(s) ==
  /\ phase = "poll"
  /\ s \in batch.streams
  /\ LET r == Flush(s) IN
       /\ queue' = [queue EXCEPT ![s] = r.q]
       /\ pipeFree' = [pipeFree EXCEPT ![s] = r.free]
       /\ delivered' = delivered \cup r.done
  /\ batch' = [batch EXCEPT !.streams = @ \ {s}]
  /\ UNCHANGED <<phase, caps, blocking, size, writes, calls, immediateQueue, running,
                 interval, fired, userImmediate, ioPending, toggles, thrown, since, exitStatus,
                 exitVia, procVars>>

\* The pass services another request: its completion callback runs.
ServiceOther ==
  /\ phase = "poll"
  /\ batch.other > 0
  /\ batch' = [batch EXCEPT !.other = @ - 1]
  /\ ioPending' = ioPending - 1
  /\ since' = Ran("io")
  /\ UNCHANGED <<phase, caps, blocking, queue, pipeFree, delivered, size, writes, calls,
                 immediateQueue, running, interval, fired, userImmediate, toggles, thrown,
                 exitStatus, exitVia, procVars>>

\* The pass services another request, and its completion callback calls
\* exeunt(code): the program is done when its request is.
ServiceOtherExeunt(args) ==
  /\ phase = "poll"
  /\ batch.other > 0
  /\ batch' = [batch EXCEPT !.other = @ - 1]
  /\ ioPending' = ioPending - 1
  /\ exeuntSetBlockingAndExitImmediate(args, "io")
  /\ since' = Ran("io")
  /\ UNCHANGED <<phase, caps, queue, pipeFree, delivered, size, writes, running, interval,
                 fired, userImmediate, exitStatus, exitVia, procVars>>

\* Mutant: the callbacks run last in, first out.
EndPoll_Lifo ==
  /\ phase = "poll"
  /\ batch.streams = {} /\ batch.other = 0
  /\ phase' = "check"
  /\ running' = [i \in 1..Len(immediateQueue) |-> immediateQueue[Len(immediateQueue) + 1 - i]]
  /\ immediateQueue' = <<>>
  /\ UNCHANGED <<caps, blocking, queue, pipeFree, delivered, size, writes, calls,
                 interval, fired, userImmediate, ioPending, batch, toggles, thrown,
                 since, exitStatus, exitVia, procVars>>

\* The pass is over: uv__run_check runs the setImmediate callbacks queued so far.
EndPoll ==
  /\ phase = "poll"
  /\ batch.streams = {} /\ batch.other = 0
  /\ phase' = "check"
  /\ running' = immediateQueue
  /\ immediateQueue' = <<>>
  /\ UNCHANGED <<caps, blocking, queue, pipeFree, delivered, size, writes, calls,
                 interval, fired, userImmediate, ioPending, batch, toggles, thrown,
                 since, exitStatus, exitVia, procVars>>

\* The setImmediate callback of the script runs.
RunImmediate ==
  /\ phase = "check"
  /\ running # <<>> /\ Head(running).fn = "user"
  /\ running' = Tail(running)
  /\ userImmediate' = "ran"
  /\ UNCHANGED <<phase, caps, blocking, queue, pipeFree, delivered, size, writes, calls,
                 immediateQueue, interval, fired, ioPending, batch, toggles, thrown,
                 since, exitStatus, exitVia, procVars>>

\* Mutant: setImmediate(processExit()), process.exit is called in the turn of
\* the call.
processExit_Called ==
  /\ phase = "main"
  /\ immediateQueue # <<>> /\ Head(immediateQueue).fn = "processExit"
  /\ phase' = "exited"
  /\ exitVia' = "processExit"
  /\ exitStatus' = Head(immediateQueue).code
  /\ running' = immediateQueue
  /\ UNCHANGED <<caps, blocking, queue, pipeFree, delivered, size, writes, calls,
                 immediateQueue, interval, fired, userImmediate, ioPending,
                 batch, toggles, thrown, since, procVars>>

\* The callback exeunt queued runs: process.exit(code). The process is gone,
\* with whatever its streams still had queued.
processExit ==
  /\ phase = "check"
  /\ running # <<>> /\ Head(running).fn = "processExit"
  /\ phase' = "exited"
  /\ exitVia' = "processExit"
  /\ exitStatus' = Head(running).code
  /\ UNCHANGED <<caps, blocking, queue, pipeFree, delivered, size, writes, calls,
                 immediateQueue, running, interval, fired, userImmediate, ioPending,
                 batch, toggles, thrown, since, procVars>>

\* The check phase is over: back to the top of the loop.
EndCheck ==
  /\ phase = "check"
  /\ running = <<>>
  /\ phase' = "alive"
  /\ UNCHANGED <<caps, blocking, queue, pipeFree, delivered, size, writes, calls,
                 immediateQueue, running, interval, fired, userImmediate, ioPending,
                 batch, toggles, thrown, since, exitStatus, exitVia, procVars>>

\* The reader at the other end of a pipe takes what is in it.
ConsumerRead(s) ==
  /\ phase # "exited"
  /\ caps[s].handle /\ ~blocking[s]
  /\ pipeFree[s] < PipeCap
  /\ pipeFree' = [pipeFree EXCEPT ![s] = PipeCap]
  /\ UNCHANGED <<phase, caps, blocking, queue, delivered, size, writes, calls,
                 immediateQueue, running, interval, fired, userImmediate, ioPending,
                 batch, toggles, thrown, since, exitStatus, exitVia, procVars>>

\* What the process itself does: the statements of main() and the loop's steps.
Step ==
  \/ \E a \in ArgLists : Exeunt(a)
  \/ Write
  \/ SetImmediate
  \/ MainProcessExit
  \/ MainSetBlocking
  \/ SetExitCode
  \/ \E a \in ArgLists : SoftExit(a)
  \/ \E a \in ArgLists : HardballExit(a)
  \/ Return
  \/ StartIteration
  \/ NaturalExit
  \/ TimerFire
  \/ TimerClear
  \/ StartPoll
  \/ \E s \in Streams : ServiceStream(s)
  \/ ServiceOther
  \/ \E a \in ArgLists : ServiceOtherExeunt(a)
  \/ EndPoll
  \/ RunImmediate
  \/ processExit
  \/ EndCheck

\* What happens around it: the readers of its pipes.
Reader == \E s \in Streams : ConsumerRead(s)

Next == Step \/ Reader

Spec == Init /\ [][Next]_vars

\* main() returns and the loop keeps turning: a step the process can take is
\* taken.
FairSpec == Spec /\ WF_vars(Step)

\* The same, and the pipes are read.
ReaderSpec == FairSpec /\ WF_vars(Reader)

\* ------------------------------------------------------------------ claims
Exited      == phase = "exited"
ByExeunt    == Exited /\ exitVia = "processExit"
\* The callback that ended the process, and the call that queued it.
Fired       == Head(running)
FiredCall   == calls[Fired.call]
Callbacks   == immediateQueue \o running
ExitPending(k) == {i \in 1..Len(Callbacks) :
                     Callbacks[i].fn = "processExit" /\ Callbacks[i].call = k}
Toggles(s)  == caps[s].exists /\ caps[s].handle /\ caps[s].toggle

\* C1 (as claimed): when the process has ended through exeunt, its exit status
\* is the code of every exeunt(c) call that was made (0 for an omitted code).
C1_StatusOfEveryCall ==
  ByExeunt => \A k \in 1..Len(calls) : exitStatus = exitCodeOf(calls[k].args)

\* C1 (amended): every queued exit callback carries the code of its call
\* unchanged (0 when the code was omitted); once exeunt has been called the
\* process eventually ends, and its exit status is the code of the first call.
C1_CodeUnchanged ==
  \A i \in 1..Len(Callbacks) :
     Callbacks[i].fn = "processExit" =>
        Callbacks[i].code = (IF calls[Callbacks[i].call].args = <<>> THEN 0
                             ELSE calls[Callbacks[i].call].args[1])
C1_Terminated ==
  /\ calls # <<>>
  /\ ByExeunt
  /\ exitStatus = (IF calls[1].args = <<>> THEN 0 ELSE calls[1].args[1])
C1_TerminatesWithFirstCode ==
  /\ [] C1_CodeUnchanged
  /\ (calls # <<>>) ~> C1_Terminated
C1_Witness ==
  /\ C1_Terminated
  /\ Len(calls) = 1
  /\ calls[1].args = <<>>
  /\ exitStatus = 0

\* C2: when the exit callback calls process.exit, a poll pass has started
\* after the call of exeunt that set the streams blocking and queued it.
C2_PollPassBeforeExit == ByExeunt => Fired.polled

\* C3: the script wrote to stdout (the start line, a payload, the done line)
\* and called exeunt(42) in main(); the process has ended through that call
\* after a poll pass that did not leave events out: every chunk written to
\* stdout is delivered, and the exit status is 42.
C3_Scenario ==
  /\ ByExeunt
  /\ FiredCall.ctx = "main"
  /\ FiredCall.args = <<42>>
  /\ ~batch.overflow
C3_OutputDeliveredAndStatus42 ==
  C3_Scenario => /\ WritesTo("stdout") \subseteq delivered
                 /\ exitStatus = 42
C3_Witness ==
  /\ C3_Scenario
  /\ size > PipeCap
  /\ caps["stdout"].toggle
  /\ WritesTo("stdout") = {1, 2, 3}
  /\ \A i \in {1, 2, 3} : writes[i].ncalls = 0
  /\ {1, 2, 3} \subseteq delivered
  /\ exitStatus = 42

\* C4 (as claimed): no stdout write that main() makes after its call of
\* exeunt is delivered.
C4_NoEffectAfterCall ==
  \A i \in WritesTo("stdout") : writes[i].ncalls > 0 => i \notin delivered

\* C4 (amended): a statement of main() after the call of exeunt takes effect
\* while the process is still running with the exit callback pending; once the
\* process has ended nothing takes effect any more.
C4_EffectsOnlyBeforeExit ==
  [][ /\ (phase = "main" /\ calls # <<>> /\ (writes' # writes \/ userImmediate' # userImmediate))
         => (ExitPending(1) # {} /\ ~Exited /\ ~Exited')
      /\ Exited => (writes' = writes /\ delivered' = delivered
                     /\ immediateQueue' = immediateQueue /\ userImmediate' = userImmediate)
    ]_vars
C4_Witness ==
  /\ ByExeunt
  /\ \E i \in WritesTo("stdout") : writes[i].ncalls > 0 /\ i \in delivered

\* C5: a call of exeunt leaves the process running, in the same turn; the
\* process ends through exeunt only in the check phase, by the queued callback
\* and not by a call.
C5_ReturnsAndExitsAsync ==
  [][ /\ Len(calls') > Len(calls) => (phase' = phase /\ exitVia' = "none")
      /\ (~Exited /\ exitVia' = "processExit")
           => (phase = "check" /\ calls' = calls /\ running # <<>>
               /\ Head(running).fn = "processExit")
    ]_vars
C5_Witness ==
  /\ phase = "main"
  /\ calls # <<>>
  /\ Len(writes) > 0
  /\ writes[Len(writes)].ncalls > 0

\* C6: a stream's handle has had setBlocking(true) called once per call of
\* exeunt if the stream, its handle and the handle's toggle all exist, and never
\* otherwise; no call raised an error; every call queued its exit callback.
C6_BestEffortToggle ==
  /\ \A s \in Streams : toggles[s] = (IF Toggles(s) THEN Len(calls) ELSE 0)
  /\ ~thrown
  /\ ~Exited => \A k \in 1..Len(calls) : ExitPending(k) # {}
C6_Witness ==
  /\ calls # <<>>
  /\ caps["stdout"].exists /\ ~caps["stdout"].handle
  /\ toggles["stdout"] = 0
  /\ toggles["stderr"] = 1
  /\ ExitPending(1) # {}

\* C7: a stream that is blocking stays blocking.
C7_BlockingMonotonic == [][\A s \in Streams : blocking[s] => blocking'[s]]_vars
C7_Witness ==
  /\ toggles["stdout"] = 2
  /\ blocking["stdout"]
  /\ Exited

\* C8: until the process ends, the exit callback of every call of exeunt is
\* pending, exactly once, the callbacks in the order of their calls, and a
\* pending callback never moves back from the running check phase.
C8_Pending ==
  ~Exited => /\ \A k \in 1..Len(calls) : Cardinality(ExitPending(k)) = 1
             /\ \A i, j \in 1..Len(Callbacks) :
                  (i < j /\ Callbacks[i].fn = "processExit" /\ Callbacks[j].fn = "processExit")
                    => Callbacks[i].call < Callbacks[j].call
C8_NeverCancelled ==
  /\ [] C8_Pending
  /\ [][\A k \in 1..Len(calls) :
          ~Exited' => Cardinality(ExitPending(k)') = 1]_vars
C8_Witness ==
  /\ Len(calls) = 2
  /\ phase = "check"
  /\ Cardinality(ExitPending(1)) = 1 /\ Cardinality(ExitPending(2)) = 1

\* C9: between the first call of exeunt and the end of the process the interval
\* runs at most once more and at most one poll pass starts, which services at
\* most IoPollMax other requests.
C9_OneMorePass ==
  /\ since.timers <= 1
  /\ since.polls <= 1
  /\ since.io <= IoPollMax
C9_Witness ==
  /\ ByExeunt
  /\ FiredCall.ctx = "main"
  /\ since.timers = 1
  /\ since.io >= 1
  /\ userImmediate = "ran"

\* C10: a poll pass services at most IoPollMax events; when the process has
\* ended through a call of exeunt in main() with a write not delivered, the
\* pass before the exit left events out.
Undelivered == (1..Len(writes)) \ delivered
C10_BoundedPass ==
  /\ Cardinality(batch.streams) + batch.other <= IoPollMax
  /\ (ByExeunt /\ FiredCall.ctx = "main" /\ Undelivered # {}) => batch.overflow
C10_Witness ==
  /\ ByExeunt
  /\ FiredCall.ctx = "main"
  /\ batch.overflow
  /\ blocking["stdout"]
  /\ \E i \in Undelivered : writes[i].s = "stdout"

\* The code of the first call of softExit or hardballExit.
SoftCode == IF soft[1].args = <<>> THEN 0 ELSE soft[1].args[1]

\* C11: once softExit(code) has been called (code 0 when omitted): where the
\* runtime has process.exitCode, the exit code is code and the call has not
\* ended the process; where it has not, the process has ended with status code
\* by process.exit if code is not 0, and the call did nothing if code is 0.
C11_SoftExitSetsExitCode ==
  soft # <<>> =>
    IF hasExitCode THEN exitCode = SoftCode /\ exitVia \in {"none", "natural"}
    ELSE IF SoftCode # 0 THEN Exited /\ exitVia = "exit" /\ exitStatus = SoftCode
    ELSE exitVia \in {"none", "natural"}

\* C12: the script set process.exitCode = 42 and did not call process.exit.
\* While its interval is active the process has not ended; when it has ended,
\* it ended by itself, with the interval cleared and with the exit code as its
\* status (0 where the runtime has no process.exitCode). Once the interval is
\* cleared the process does end.
C12_CodeSet == program = "soft" /\ exitCode = 42
C12_NoExitWhileActive ==
  /\ (C12_CodeSet /\ interval) => ~Exited
  /\ (C12_CodeSet /\ Exited) =>
        /\ exitVia = "natural"
        /\ exitStatus = (IF hasExitCode THEN 42 ELSE 0)
C13_SoftExitZero ==
  /\ soft # <<>>
  /\ soft[1].fn = "softExit"
  /\ SoftCode = 0
  /\ ~interval /\ ioPending = 0 /\ immediateQueue = <<>>
C13_NaturalExitFlushed ==
  (C13_SoftExitZero /\ Exited) =>
     /\ exitVia = "natural"
     /\ exitStatus = 0
     /\ Undelivered = {}

\* C14: the script called hardballExit(code); when the process has ended, its
\* status is code, and it ended either by itself or by the process.exit(code)
\* of the timer, after the hardball message was written to stderr.
C14_HardballCalled == soft # <<>> /\ soft[1].fn = "hardballExit"
C14_HardballExitStatus ==
  (C14_HardballCalled /\ Exited) =>
     /\ exitStatus = SoftCode
     /\ \/ exitVia = "natural"
        \/ /\ exitVia = "exit"
           /\ writes # <<>>
           /\ writes[Len(writes)].s = "stderr"

\* C15: the set-blocking step performed again (a second call of exeunt, a
\* second setBlocking() of the script) leaves every stream's mode as the first
\* left it and raises no error; and after two calls of exeunt, the first of
\* them in main(), the process ends with everything written to stdout
\* delivered, as after one (absent a poll pass that leaves events out).
C15_SetAgain ==
  \/ Len(calls') > Len(calls) /\ Len(calls) >= 1
  \/ manual' > manual /\ manual >= 1
C15_FlushedAfterTwo ==
  /\ ~thrown
  /\ (ByExeunt /\ Len(calls) = 2 /\ FiredCall.ctx = "main" /\ ~batch.overflow)
        => WritesTo("stdout") \subseteq delivered
C15_ToggleIdempotent ==
  /\ [] C15_FlushedAfterTwo
  /\ [][C15_SetAgain => (blocking' = blocking /\ thrown' = thrown /\ ~Exited')]_vars
C15_Witness ==
  /\ ByExeunt
  /\ Len(calls) = 2
  /\ calls[1].ctx = "main" /\ calls[2].ctx = "main"
  /\ toggles["stdout"] = 2
  /\ size > PipeCap
  /\ Cardinality(WritesTo("stdout")) = 3
  /\ \A i \in WritesTo("stdout") : writes[i].ncalls = 0 /\ i \in delivered

\* C16: in the turn of main() nothing that is queued gets written: not by
\* setBlocking(), and not by a write made after it, which is queued behind what
\* the stream has queued. Every stream's writes are delivered in order.
C16_InOrder ==
  \A i, j \in 1..Len(writes) :
     (i < j /\ writes[i].s = writes[j].s /\ j \in delivered) => i \in delivered
C16_SetBlockingDoesNotFlush ==
  /\ [] C16_InOrder
  /\ [][phase = "main" => Undelivered \subseteq Undelivered']_vars
\* The script of write-65k-setblocking-write-and-exit.js: the payload, written
\* before setBlocking(), and a line written after it are lost at process.exit(42).
C16_Witness ==
  /\ Exited /\ exitVia = "exit" /\ exitStatus = 42
  /\ manual = 1
  /\ blocking["stdout"]
  /\ Len(writes) = 3
  /\ ~writes[2].blocking /\ 2 \in Undelivered
  /\ writes[3].blocking /\ 3 \in Undelivered

\* The units written to stream s so far.
RECURSIVE SumSizes(_)
SumSizes(ws) == IF ws = <<>> THEN 0 ELSE Head(ws).size + SumSizes(Tail(ws))
Volume(s) == SumSizes(SelectSeq(writes, LAMBDA w : w.s = s))

\* C17: the script wrote to stdout and called process.exit(42) itself, in
\* main(): when all it wrote fits in the pipe, every write is delivered. (More
\* than the pipe holds can be cut off: the witness.)
C17_NoTruncationWhenFits ==
  (Exited /\ exitVia = "exit" /\ program = "exit" /\ Volume("stdout") <= PipeCap)
     => WritesTo("stdout") \subseteq delivered
C17_Witness ==
  /\ Exited /\ exitVia = "exit" /\ program = "exit"
  /\ exitStatus = 42
  /\ manual = 0
  /\ ~blocking["stdout"]
  /\ Volume("stdout") > PipeCap
  /\ WritesTo("stdout") = {1, 2, 3}
  /\ 1 \in delivered
  /\ 3 \in Undelivered

\* C18: when the process has ended through exeunt, the callback that ended it
\* is the one of the first call and the exit status is that call's code; the
\* callbacks of the later calls are still queued behind it, in call order, and
\* have not run.
C18_FirstCallWins ==
  ByExeunt =>
     /\ Fired.fn = "processExit" /\ Fired.call = 1
     /\ exitStatus = (IF calls[1].args = <<>> THEN 0 ELSE calls[1].args[1])
     /\ \A k \in 2..Len(calls) :
          \E i \in 2..Len(running) :
             /\ running[i].fn = "processExit" /\ running[i].call = k
             /\ \A j \in 1..(i - 1) : running[j].fn = "processExit" => running[j].call < k
C18_Witness ==
  /\ ByExeunt
  /\ Len(calls) = 2
  /\ calls[1].args = <<42>> /\ calls[2].args = <<>>
  /\ exitStatus = 42
  /\ Len(running) >= 2

\* C19: a setImmediate callback of the script that runs was queued before the
\* first call of exeunt; when the process has ended through exeunt, every
\* callback queued before the call has run and the ones queued after it are
\* still queued.
C19_QueuedBeforeRan ==
  ByExeunt => \A i \in 1..Len(Callbacks) :
                 Callbacks[i].fn = "user" => (Callbacks[i].call >= 1 /\ userImmediate = "queued")
C19_Fifo ==
  /\ [] C19_QueuedBeforeRan
  /\ [][(userImmediate' = "ran" /\ userImmediate = "queued")
          => (running # <<>> /\ Head(running).fn = "user" /\ Head(running).call = 0)]_vars
C19_Witness ==
  /\ ByExeunt
  /\ userImmediate = "queued"
  /\ Len(running) >= 2
  /\ running[2].fn = "user" /\ running[2].call = 1

\* C20: a call of exeunt changes the blocking flags of the streams that have
\* the toggle and appends one exit callback to the setImmediate queue, and
\* nothing else: not the interval, the requests in flight (but for the one
\* whose callback made the call), the callbacks queued or running, what the
\* streams have queued or delivered, process.exitCode, or the process's end.
C20_Called == Len(calls') > Len(calls)
C20_FrameOfExeunt ==
  [][C20_Called =>
       /\ \A s \in Streams : blocking'[s] = (blocking[s] \/ Toggles(s))
       /\ Len(immediateQueue') = Len(immediateQueue) + 1
       /\ SubSeq(immediateQueue', 1, Len(immediateQueue)) = immediateQueue
       /\ immediateQueue'[Len(immediateQueue')].fn = "processExit"
       /\ ioPending' = (IF calls'[Len(calls')].ctx = "io" THEN ioPending - 1 ELSE ioPending)
       /\ interval' = interval /\ fired' = fired
       /\ running' = running /\ userImmediate' = userImmediate
       /\ queue' = queue /\ pipeFree' = pipeFree /\ delivered' = delivered
       /\ writes' = writes
       /\ exitCode' = exitCode /\ exitStatus' = exitStatus /\ exitVia' = exitVia
       /\ phase' = phase
    ]_vars
C20_Witness ==
  /\ phase = "main"
  /\ Len(calls) = 1
  /\ interval
  /\ ioPending > 0
  /\ userImmediate = "queued"
  /\ queue["stdout"] # <<>>
  /\ blocking["stdout"]
  /\ exitCode = 0

====
